---- MODULE Spec2Model ----
(***************************************************************************)
(* The OpenAI-compatible chat-completion route of Perplexica               *)
(* (router.post('/chat/completions') in routes/openai-completion.ts).      *)
(*                                                                         *)
(* One HTTP exchange is modelled: the async route handler up to each of    *)
(* its awaits, the three callbacks it registers on the agent's event       *)
(* emitter, and the client's disconnect.  `res` records what the handler   *)
(* does to the express Response: the status it sets, the headers it sets,  *)
(* every res.write / res.json it issues, and whether it ended the body.    *)
(***************************************************************************)
EXTENDS Naturals, Sequences, FiniteSets

VARIABLES
    pc,                      \* position of the async route handler: "idle",
                             \* "awaitProviders" (line 112), and where it left:
                             \* "rejected" (line 106), "unavailable" (line 152),
                             \* "bridging" (line 254), "threw" (lines 118, 121)
    reqBody,                 \* req.body
    json,                    \* the parsed Params (line 90)
    id,                      \* const id = uuid.v4() (line 109)
    registryCalls,           \* calls of getAvailable*ModelProviders so far
    chatModelProviders,      \* line 112
    embeddingModelProviders, \* line 112
    llm,                     \* line 125
    embeddings,              \* line 126
    handler,                 \* the emitter returned by handleWebSearch (line 201)
    emitted,                 \* the events the emitter has emitted so far
    started,                 \* line 162
    res,                     \* the express Response
    clientClosed             \* the response's 'close' event has fired

vars == <<pc, reqBody, json, id, registryCalls, chatModelProviders,
          embeddingModelProviders, llm, embeddings, handler, emitted,
          started, res, clientClosed>>

(***************************************************************************)
(* Bounds of the model.                                                    *)
(***************************************************************************)
MaxMsgs == 2        \* longest messages array of a request
MaxEvents == 3      \* most 'data' events one agent run emits
MaxProviders == 2   \* most providers in one catalog
MaxModels == 2      \* most models of one provider

(***************************************************************************)
(* JSON values that are not strings of the program.                        *)
(***************************************************************************)
Absent == "<absent>"        \* the key is not in the object
Null == "<null>"            \* JSON null
Undefined == "<undefined>"  \* JS undefined

NoParams == [messages |-> <<>>, model |-> Undefined, stream |-> FALSE,
             response_raw |-> FALSE]
NoBody == [messages |-> <<>>, model |-> Absent, stream |-> Absent,
           response_raw |-> Absent]
NoHandler == [state |-> "none", query |-> Undefined, history |-> <<>>,
              llm |-> Undefined, embeddings |-> Undefined]

(***************************************************************************)
(* requestParamsSchema (zod) and the last-message check.                   *)
(***************************************************************************)
RoleEnum == {"user", "assistant", "system"}
ModelEnum == {"perplexica"}

\* a variant of MessagesSchemaOk: only the last message's role is checked
MessagesSchemaOk_LastOnly(messages) ==
    /\ Len(messages) > 0
    /\ messages[Len(messages)].role \in RoleEnum

\* messages: z.object({role: z.enum([...]), content: z.string()}).required().array().nonempty()
MessagesSchemaOk(messages) ==
    /\ Len(messages) > 0
    /\ \A i \in 1..Len(messages) : messages[i].role \in RoleEnum

\* model: z.enum(['perplexica']).nullable().default('perplexica')
ModelSchemaOk(model) == model \in ModelEnum \cup {Null, Absent}

\* z.boolean() with .nullable()/.optional() and a default
BooleanSchemaOk(b) == b \in {"true", "false", Absent}

SchemaOk(body) ==
    /\ MessagesSchemaOk(body.messages)
    /\ ModelSchemaOk(body.model)
    /\ BooleanSchemaOk(body.stream)
    /\ BooleanSchemaOk(body.response_raw)

\* what parseAsync resolves to: .default() replaces an absent key only
ParseBoolean(b) == IF b = Absent THEN FALSE ELSE b = "true"

ParseParams(body) ==
    [messages |-> body.messages,
     model |-> IF body.model = Absent THEN "perplexica" ELSE body.model,
     stream |-> ParseBoolean(body.stream),
     response_raw |-> ParseBoolean(body.response_raw)]

\* a variant of LastMessageOk: the content of the last message is not checked
LastMessageOk_RoleOnly(messages) ==
    ~ \/ Len(messages) = 0
      \/ messages[Len(messages)].role # "user"

\* the negation of the condition of lines 92-96
LastMessageOk(messages) ==
    ~ \/ Len(messages) = 0
      \/ messages[Len(messages)].role # "user"
      \/ messages[Len(messages)].content = ""

ZodMessage == "ZodError"
LastMessageMessage == "Invalid messages, last message must be from user"

(***************************************************************************)
(* The express Response.                                                   *)
(***************************************************************************)
NewResponse == [statusCode |-> 0, headers |-> {}, body |-> <<>>, ended |-> FALSE]

EventStreamHeaders ==
    {<<"Content-Type", "text/event-stream">>,
     <<"Cache-Control", "no-cache">>,
     <<"Connection", "keep-alive">>}

JsonHeaders == {<<"Content-Type", "application/json">>}

ErrorBody(code, type, message) ==
    [kind |-> "json",
     payload |-> [type |-> type, message |-> message, param |-> Null, code |-> code]]

\* res.status(code).json({error: {...}}): sets the status, sends the body, ends
throwError(r, code, type, message) ==
    [r EXCEPT !.statusCode = code,
              !.headers = {h \in @ : h[1] # "Content-Type"} \cup JsonHeaders,
              !.body = Append(@, ErrorBody(code, type, message)),
              !.ended = TRUE]

\* the pair (started, res) the closures of the handler act on
Bridge == [started |-> started, res |-> res]

\* a variant of startStreamIfNeed: the started flag is never set
startStreamIfNeed_FlagNotSet(b) ==
    IF ~b.started
    THEN [started |-> FALSE,
          res |-> [b.res EXCEPT !.statusCode = 200,
                                !.headers = @ \cup EventStreamHeaders]]
    ELSE b

startStreamIfNeed(b) ==
    IF ~b.started
    THEN [started |-> TRUE,
          res |-> [b.res EXCEPT !.statusCode = 200,
                                !.headers = {h \in @ : h[1] \notin {"Content-Type", "Cache-Control", "Connection"}}
                                            \cup EventStreamHeaders]]
    ELSE b

\* a variant of createDelta: every chunk after the first gets an id of its own
createDelta_FreshId(content, finish_reason) ==
    [id |-> IF Len(res.body) = 0 THEN id ELSE "uuid-of-chunk",
     object |-> "chat.completion.chunk",
     model |-> json.model,
     content |-> content,
     index |-> 0,
     finish_reason |-> finish_reason]

createDelta(content, finish_reason) ==
    [id |-> id,
     object |-> "chat.completion.chunk",
     model |-> json.model,
     content |-> content,
     index |-> 0,
     finish_reason |-> finish_reason]

ChunkLine(content, finish_reason) ==
    [kind |-> "chunk", payload |-> createDelta(content, finish_reason)]

DoneLine == [kind |-> "done", payload |-> "[DONE]"]

\* a variant of writeDelta: the chunk is written without starting the stream
writeDelta_NoStart(b, content, finish_reason) ==
    [b EXCEPT !.res.body = Append(@, ChunkLine(content, finish_reason))]

\* a variant of writeDelta: the chunk goes in front of the body
writeDelta_Unshift(b, content, finish_reason) ==
    LET s == startStreamIfNeed(b)
    IN  [s EXCEPT !.res.body = <<ChunkLine(content, finish_reason)>> \o @]

writeDelta(b, content, finish_reason) ==
    LET s == startStreamIfNeed(b)
    IN  [s EXCEPT !.res.body = Append(@, ChunkLine(content, finish_reason))]

(***************************************************************************)
(* The provider catalogs: JS objects, as the sequence of their entries in  *)
(* insertion order.                                                        *)
(***************************************************************************)
ObjectKeys(o) == [i \in 1..Len(o) |-> o[i].key]

HasKey(o, k) == \E i \in 1..Len(o) : o[i].key = k

Get(o, k) == o[CHOOSE i \in 1..Len(o) : o[i].key = k].value

\* a variant of FirstKey: the last key of the object
FirstKey_Last(o) == IF Len(o) = 0 THEN Undefined ELSE ObjectKeys(o)[Len(o)]

\* Object.keys(o)[0]
FirstKey(o) == IF Len(o) = 0 THEN Undefined ELSE ObjectKeys(o)[1]

\* lines 117-118 and 120-123: Object.keys(providers[Object.keys(providers)[0]])
\* throws a TypeError when providers has no key
SelectionThrows(providers) == ~HasKey(providers, FirstKey(providers))

\* lines 117-144 for one catalog: the handle, or undefined
SelectModel(providers) ==
    LET provider == FirstKey(providers)
        model == FirstKey(Get(providers, provider))
    IN  IF HasKey(providers, provider) /\ HasKey(Get(providers, provider), model)
        THEN Get(Get(providers, provider), model)
        ELSE Undefined

(***************************************************************************)
(* The agent's events.                                                     *)
(***************************************************************************)
\* JSON.stringify({type, data}) as the agent emits it
Stringify(ev) == "{type:" \o ev.type \o ",data:" \o ev.data \o "}"

AllEvents == [type : {"response", "sources"}, data : {"a", "b"}]

\* JSON.parse of a payload the agent emitted
JSONparse(data) == CHOOSE ev \in AllEvents : Stringify(ev) = data

\* a variant of Forwarded: the type of the event is not looked at
Forwarded_AnyType(response_raw, data) ==
    IF response_raw THEN <<data>> ELSE <<JSONparse(data).data>>

\* a variant of Forwarded: response_raw is not looked at
Forwarded_NeverRaw(response_raw, data) ==
    LET parsedData == JSONparse(data)
    IN  IF parsedData.type = "response" THEN <<parsedData.data>> ELSE <<>>

\* the content handler.on('data') forwards for one payload: a sequence of
\* zero or one delta contents (lines 225-233)
Forwarded(response_raw, data) ==
    IF response_raw
    THEN <<data>>
    ELSE LET parsedData == JSONparse(data)
         IN  IF parsedData.type = "response" THEN <<parsedData.data>> ELSE <<>>

\* history.map (lines 203-219)
ToMessage(i) ==
    IF i.role = "user" THEN [type |-> "human", content |-> i.content]
    ELSE IF i.role = "assistant" THEN [type |-> "ai", content |-> i.content]
    ELSE [type |-> "system", content |-> i.content]

(***************************************************************************)
(* Init: no request has arrived.                                           *)
(***************************************************************************)
Init ==
    /\ pc = "idle"
    /\ reqBody = NoBody
    /\ json = NoParams
    /\ id = Undefined
    /\ registryCalls = 0
    /\ chatModelProviders = <<>>
    /\ embeddingModelProviders = <<>>
    /\ llm = Undefined
    /\ embeddings = Undefined
    /\ handler = NoHandler
    /\ emitted = <<>>
    /\ started = FALSE
    /\ res = NewResponse
    /\ clientClosed = FALSE

(***************************************************************************)
(* The route handler up to its second await (lines 86-115).                *)
(***************************************************************************)
\* a variant of PostChatCompletions: the registry is asked before the body
\* is validated
PostChatCompletions_LookupFirst(body, uuid) ==
    /\ pc = "idle"
    /\ reqBody' = body
    /\ registryCalls' = registryCalls + 2
    /\ IF ~SchemaOk(body)
       THEN /\ res' = throwError(res, 400, "invalid_request_error", ZodMessage)
            /\ pc' = "rejected"
            /\ UNCHANGED <<json, id>>
       ELSE IF ~LastMessageOk(ParseParams(body).messages)
       THEN /\ res' = throwError(res, 400, "invalid_request_error", LastMessageMessage)
            /\ pc' = "rejected"
            /\ UNCHANGED <<json, id>>
       ELSE /\ json' = ParseParams(body)
            /\ id' = uuid
            /\ pc' = "awaitProviders"
            /\ UNCHANGED res
    /\ UNCHANGED <<chatModelProviders, embeddingModelProviders, llm, embeddings,
                   handler, emitted, started, clientClosed>>

PostChatCompletions(body, uuid) ==
    /\ pc = "idle"
    /\ reqBody' = body
    /\ IF ~SchemaOk(body)
       THEN /\ res' = throwError(res, 400, "invalid_request_error", ZodMessage)
            /\ pc' = "rejected"
            /\ UNCHANGED <<json, id, registryCalls>>
       ELSE IF ~LastMessageOk(ParseParams(body).messages)
       THEN /\ res' = throwError(res, 400, "invalid_request_error", LastMessageMessage)
            /\ pc' = "rejected"
            /\ UNCHANGED <<json, id, registryCalls>>
       ELSE /\ json' = ParseParams(body)
            /\ id' = uuid
            /\ registryCalls' = registryCalls + 2
            /\ pc' = "awaitProviders"
            /\ UNCHANGED res
    /\ UNCHANGED <<chatModelProviders, embeddingModelProviders, llm, embeddings,
                   handler, emitted, started, clientClosed>>

(***************************************************************************)
(* The rest of the route handler, run when both catalogs have arrived      *)
(* (lines 112-254).                                                        *)
(***************************************************************************)
\* a variant of ProvidersLoaded: no return after the error of line 147
ProvidersLoaded_NoReturn(chat, embedding) ==
    /\ pc = "awaitProviders"
    /\ chatModelProviders' = chat
    /\ embeddingModelProviders' = embedding
    /\ IF SelectionThrows(chat) \/ SelectionThrows(embedding)
       THEN /\ pc' = "threw"
            /\ UNCHANGED <<llm, embeddings, handler, res>>
       ELSE /\ llm' = SelectModel(chat)
            /\ embeddings' = SelectModel(embedding)
            /\ res' = IF llm' = Undefined \/ embeddings' = Undefined
                      THEN throwError(res, 500, "internal_server_error",
                                      "Model or Embedding not found")
                      ELSE res
            /\ pc' = "bridging"
            /\ handler' =
                  [state |-> "running",
                   query |-> json.messages[Len(json.messages)].content,
                   history |-> [i \in 1..(Len(json.messages) - 1) |->
                                   ToMessage(json.messages[i])],
                   llm |-> llm',
                   embeddings |-> embeddings']
    /\ UNCHANGED <<reqBody, json, id, registryCalls, emitted, started, clientClosed>>

ProvidersLoaded(chat, embedding) ==
    /\ pc = "awaitProviders"
    /\ chatModelProviders' = chat
    /\ embeddingModelProviders' = embedding
    /\ IF SelectionThrows(chat) \/ SelectionThrows(embedding)
       THEN \* TypeError at line 118 or 121: the async handler rejects
            /\ pc' = "threw"
            /\ UNCHANGED <<llm, embeddings, handler, res>>
       ELSE /\ llm' = SelectModel(chat)
            /\ embeddings' = SelectModel(embedding)
            /\ IF llm' = Undefined \/ embeddings' = Undefined
               THEN /\ res' = throwError(res, 500, "internal_server_error",
                                         "Model or Embedding not found")
                    /\ pc' = "unavailable"
                    /\ UNCHANGED handler
               ELSE /\ pc' = "bridging"
                    /\ handler' =
                          [state |-> "running",
                           query |-> json.messages[Len(json.messages)].content,
                           history |-> [i \in 1..(Len(json.messages) - 1) |->
                                           ToMessage(json.messages[i])],
                           llm |-> llm',
                           embeddings |-> embeddings']
                    /\ UNCHANGED res
    /\ UNCHANGED <<reqBody, json, id, registryCalls, emitted, started, clientClosed>>

(***************************************************************************)
(* handler.on('data') (lines 224-234).  The emitter calls the callbacks    *)
(* one at a time, in emission order; it emits 'data' any number of times   *)
(* and then one 'end' or one 'error' (handler.state leaves "running").     *)
(***************************************************************************)
WriteAll(b, contents) ==
    IF Len(contents) = 0 THEN b ELSE writeDelta(b, contents[1], Null)

OnData(ev) ==
    /\ handler.state = "running"
    /\ emitted' = Append(emitted, ev)
    /\ LET b == WriteAll(Bridge, Forwarded(json.response_raw, Stringify(ev)))
       IN  /\ started' = b.started
           /\ res' = b.res
    /\ UNCHANGED <<pc, reqBody, json, id, registryCalls, chatModelProviders,
                   embeddingModelProviders, llm, embeddings, handler, clientClosed>>

(***************************************************************************)
(* handler.on('end') (lines 236-240).                                      *)
(***************************************************************************)
\* a variant of EndStream: the [DONE] marker is written before the stop chunk
EndStream_DoneFirst(b) ==
    LET s == writeDelta([b EXCEPT !.res.body = Append(@, DoneLine)], "", "stop")
    IN  [s EXCEPT !.res.ended = TRUE]

\* a variant of EndStream: a stream that never started is only ended
EndStream_OnlyIfStarted(b) ==
    IF b.started
    THEN LET s == writeDelta(b, "", "stop")
         IN  [s EXCEPT !.res.body = Append(@, DoneLine), !.res.ended = TRUE]
    ELSE [b EXCEPT !.res.ended = TRUE]

EndStream(b) ==
    LET s == writeDelta(b, "", "stop")
    IN  [s EXCEPT !.res.body = Append(@, DoneLine), !.res.ended = TRUE]

OnEnd ==
    /\ handler.state = "running"
    /\ handler' = [handler EXCEPT !.state = "ended"]
    /\ LET b == EndStream(Bridge)
       IN  /\ started' = b.started
           /\ res' = b.res
    /\ UNCHANGED <<pc, reqBody, json, id, registryCalls, chatModelProviders,
                   embeddingModelProviders, llm, embeddings, emitted, clientClosed>>

(***************************************************************************)
(* handler.on('error') (lines 242-253).                                    *)
(***************************************************************************)
\* a variant of FailStream: the JSON error is sent whatever started is
FailStream_AlwaysJson(b) ==
    [b EXCEPT !.res = throwError(@, 500, "internal_server_error",
                                 "An error has occurred please try again later")]

FailStream(b) ==
    IF b.started
    THEN [b EXCEPT !.res.ended = TRUE]
    ELSE [b EXCEPT !.res = throwError(@, 500, "internal_server_error",
                                      "An error has occurred please try again later")]

OnError ==
    /\ handler.state = "running"
    /\ handler' = [handler EXCEPT !.state = "errored"]
    /\ LET b == FailStream(Bridge)
       IN  /\ started' = b.started
           /\ res' = b.res
    /\ UNCHANGED <<pc, reqBody, json, id, registryCalls, chatModelProviders,
                   embeddingModelProviders, llm, embeddings, emitted, clientClosed>>

(***************************************************************************)
(* The client disconnects while the exchange is open.  The route registers *)
(* no listener for the response's 'close' event, so nothing else changes.  *)
(***************************************************************************)
ClientClose ==
    /\ pc # "idle"
    /\ ~clientClosed
    /\ ~res.ended
    /\ clientClosed' = TRUE
    /\ UNCHANGED <<pc, reqBody, json, id, registryCalls, chatModelProviders,
                   embeddingModelProviders, llm, embeddings, handler, emitted,
                   started, res>>

(***************************************************************************)
(* Inputs.                                                                 *)
(***************************************************************************)
Roles == RoleEnum \cup {"tool"}
Contents == {"", "q"}
Messages == [role : Roles, content : Contents]
MessageLists(n) == UNION {[1..k -> Messages] : k \in 0..n}

BodiesOver(lists, models, flags) ==
    [messages : lists, model : models, stream : flags, response_raw : flags]

UserQ == [role |-> "user", content |-> "q"]

\* the request bodies of the specification of the bridge
BridgeBodies ==
    BodiesOver({<<UserQ>>, <<[role |-> "system", content |-> ""], UserQ>>, <<>>},
               {Absent, Null, "perplexica", "gpt-4"},
               {Absent, "true", "false"})

Ids == {"uuid-1", "uuid-2"}

ProviderNames == <<"openai", "ollama", "groq", "anthropic">>
ModelNames == <<"m1", "m2", "m3", "m4">>

\* a catalog whose i-th provider holds shape[i] models
Catalog(kind, shape) ==
    [i \in 1..Len(shape) |->
        [key |-> ProviderNames[i],
         value |-> [j \in 1..shape[i] |->
                       [key |-> ModelNames[j],
                        value |-> kind \o ":" \o ProviderNames[i] \o "/" \o ModelNames[j]]]]]

Shapes(maxProviders, maxModels) ==
    UNION {[1..n -> 0..maxModels] : n \in 0..maxProviders}

Catalogs(kind, maxProviders, maxModels) ==
    {Catalog(kind, s) : s \in Shapes(maxProviders, maxModels)}

(***************************************************************************)
(* Spec: the bridge, over every agent run of at most MaxEvents events.     *)
(***************************************************************************)
Next ==
    \/ \E body \in BridgeBodies, uuid \in Ids : PostChatCompletions(body, uuid)
    \/ \E chat \in Catalogs("chat", 1, 1), embedding \in Catalogs("embedding", 1, 1) :
          ProvidersLoaded(chat, embedding)
    \/ \E ev \in AllEvents : Len(emitted) < MaxEvents /\ OnData(ev)
    \/ OnEnd
    \/ OnError
    \/ ClientClose

Spec == Init /\ [][Next]_vars

(***************************************************************************)
(* SpecValidate: the validation, over every request body of at most        *)
(* MaxMsgs messages; the agent emits at most one event.                    *)
(***************************************************************************)
ValidateBodies ==
    BodiesOver(MessageLists(MaxMsgs),
               {Absent, Null, "perplexica", "gpt-4"},
               {Absent, "true", "false"})

NextValidate ==
    \/ \E body \in ValidateBodies : PostChatCompletions(body, "uuid-1")
    \/ \E chat \in Catalogs("chat", 1, 1), embedding \in Catalogs("embedding", 1, 1) :
          ProvidersLoaded(chat, embedding)
    \/ Len(emitted) < 1 /\ OnData([type |-> "response", data |-> "a"])
    \/ OnEnd
    \/ OnError
    \/ ClientClose

SpecValidate == Init /\ [][NextValidate]_vars

(***************************************************************************)
(* SpecResolve: the provider selection, over every pair of catalogs of at  *)
(* most MaxProviders providers of at most MaxModels models each; the       *)
(* agent emits at most one event.                                          *)
(***************************************************************************)
ResolveBodies ==
    BodiesOver({<<UserQ>>, <<>>}, {Absent, "perplexica", "gpt-4"}, {Absent})

NextResolve ==
    \/ \E body \in ResolveBodies : PostChatCompletions(body, "uuid-1")
    \/ \E chat \in Catalogs("chat", MaxProviders, MaxModels),
          embedding \in Catalogs("embedding", MaxProviders, MaxModels) :
          ProvidersLoaded(chat, embedding)
    \/ Len(emitted) < 1 /\ OnData([type |-> "response", data |-> "a"])
    \/ OnEnd
    \/ OnError
    \/ ClientClose

SpecResolve == Init /\ [][NextResolve]_vars

(***************************************************************************)
(* What a response holds.                                                  *)
(***************************************************************************)
IsChunk(line) == line.kind = "chunk"
IsStop(line) == line.kind = "chunk" /\ line.payload.finish_reason = "stop"
IsContent(line) == line.kind = "chunk" /\ line.payload.finish_reason = Null
IsDone(line) == line.kind = "done"
IsJson(line) == line.kind = "json"

StopIndexes == {i \in 1..Len(res.body) : IsStop(res.body[i])}
DoneIndexes == {i \in 1..Len(res.body) : IsDone(res.body[i])}
JsonIndexes == {i \in 1..Len(res.body) : IsJson(res.body[i])}

ContentChunks == SelectSeq(res.body, IsContent)
DeltaContents == [i \in 1..Len(ContentChunks) |-> ContentChunks[i].payload.content]

NoEventStream ==
    /\ res.headers \cap EventStreamHeaders = {}
    /\ ~started
    /\ \A i \in 1..Len(res.body) : ~IsChunk(res.body[i]) /\ ~IsDone(res.body[i])

IsJsonError(code, type) ==
    /\ res.statusCode = code
    /\ Len(res.body) = 1
    /\ IsJson(res.body[1])
    /\ res.body[1].payload.type = type
    /\ res.body[1].payload.code = code
    /\ res.ended

IsResponseEvent(ev) == ev.type = "response"
ResponseEvents == SelectSeq(emitted, IsResponseEvent)

(***************************************************************************)
(* C1: when the agent ends normally, the response holds exactly one chunk  *)
(* with finish_reason "stop", it is the last line written before the       *)
(* [DONE] marker, which is the last line of the body; and in no state does *)
(* a response hold more than one stop chunk.                               *)
(***************************************************************************)
C1_OneStopBeforeDone ==
    /\ Cardinality(StopIndexes) <= 1
    /\ handler.state = "ended" =>
          /\ Cardinality(StopIndexes) = 1
          /\ DoneIndexes = {Len(res.body)}
          /\ StopIndexes = {Len(res.body) - 1}
          /\ res.ended

C1_Witness ==
    /\ handler.state = "ended"
    /\ Len(ContentChunks) >= 2
    /\ Len(res.body) = Len(ContentChunks) + 2

(***************************************************************************)
(* C3: when the agent fails after the stream has started, the body is      *)
(* ended and holds no stop chunk, no [DONE] marker and no JSON error.      *)
(***************************************************************************)
C3_MidStreamErrorTruncates ==
    (handler.state = "errored" /\ started) =>
        /\ res.ended
        /\ StopIndexes = {}
        /\ DoneIndexes = {}
        /\ JsonIndexes = {}
        /\ res.statusCode = 200

C3_Witness ==
    /\ handler.state = "errored"
    /\ started
    /\ Len(ContentChunks) >= 1
    /\ res.ended

(***************************************************************************)
(* C4: when the agent fails while nothing has been written (started is     *)
(* false, whatever events were dropped before), the response is the 500    *)
(* JSON error internal_server_error with the fixed message, and holds no   *)
(* event-stream header and no chunk.                                       *)
(***************************************************************************)
C4_EarlyErrorIsJson500 ==
    (handler.state = "errored" /\ ~started) =>
        /\ IsJsonError(500, "internal_server_error")
        /\ res.body[1].payload.message = "An error has occurred please try again later"
        /\ NoEventStream

C4_Witness ==
    /\ handler.state = "errored"
    /\ ~started
    /\ Len(emitted) >= 1
    /\ res.statusCode = 500

(***************************************************************************)
(* C7: with response_raw false, the delta contents written are exactly the *)
(* data fields of the emitted events of type response, and as long as no   *)
(* such event was emitted the running bridge has written nothing: no       *)
(* status, no header, no chunk, no error.                                  *)
(***************************************************************************)
C7_OnlyResponseEventsForwarded ==
    (handler.state # "none" /\ ~json.response_raw) =>
        /\ DeltaContents = [i \in 1..Len(ResponseEvents) |-> ResponseEvents[i].data]
        /\ (handler.state = "running" /\ Len(ResponseEvents) = 0) =>
              (~started /\ res = NewResponse)

C7_Witness ==
    /\ handler.state = "running"
    /\ ~json.response_raw
    /\ Len(emitted) = 3
    /\ Len(ResponseEvents) = 1
    /\ Len(ContentChunks) = 1

(***************************************************************************)
(* C8: with response_raw true, every emitted event, whatever its type, has *)
(* one content chunk, whose delta content is the event's payload as the    *)
(* agent emitted it and whose finish_reason is null.                       *)
(***************************************************************************)
C8_RawForwardsEveryEvent ==
    (handler.state # "none" /\ json.response_raw) =>
        /\ Len(SelectSeq(res.body, IsContent)) = Len(emitted)
        /\ \A i \in 1..Len(emitted) :
              /\ IsChunk(res.body[i])
              /\ res.body[i].payload.content = Stringify(emitted[i])
              /\ res.body[i].payload.finish_reason = Null

C8_Witness ==
    /\ json.response_raw
    /\ Len(emitted) = 2
    /\ emitted[1].type = "sources"
    /\ emitted[2].type = "response"
    /\ Len(ContentChunks) = 2

(***************************************************************************)
(* C9: the content chunks of the response are the forwarded events in the  *)
(* order the agent emitted them: there are as many content chunks as       *)
(* forwarded events, and the k-th line of the body is the content chunk of *)
(* the k-th forwarded event.                                               *)
(***************************************************************************)
IsForwardedEvent(ev) == json.response_raw \/ ev.type = "response"
ForwardedEvents == SelectSeq(emitted, IsForwardedEvent)
ContentOfEvent(ev) == IF json.response_raw THEN Stringify(ev) ELSE ev.data

C9_ForwardedInEmissionOrder ==
    handler.state # "none" =>
        /\ Len(ContentChunks) = Len(ForwardedEvents)
        /\ \A k \in 1..Len(ForwardedEvents) :
              /\ IsContent(res.body[k])
              /\ res.body[k].payload.content = ContentOfEvent(ForwardedEvents[k])

C9_Witness ==
    /\ Len(ForwardedEvents) = 3
    /\ ForwardedEvents[1].data = "b"
    /\ ForwardedEvents[2].data = "a"
    /\ ForwardedEvents[3].data = "b"
    /\ Len(ContentChunks) = 3

(***************************************************************************)
(* C2: when the chat catalog or the embedding catalog is empty, the        *)
(* request is answered with the 500 JSON error internal_server_error and   *)
(* no event-stream status or header.  The code throws at line 118 or 121   *)
(* before it answers, so it does not keep this.                            *)
(***************************************************************************)
ProvidersArrived == pc \in {"unavailable", "bridging", "threw"}

C2_EmptyCatalogIs500 ==
    (/\ ProvidersArrived
     /\ (Len(chatModelProviders) = 0 \/ Len(embeddingModelProviders) = 0)) =>
        /\ IsJsonError(500, "internal_server_error")
        /\ NoEventStream

(***************************************************************************)
(* C5: a request whose last message is not from the user, or has empty     *)
(* content, is answered with the 400 JSON error invalid_request_error, and *)
(* in no later state does its response hold an event-stream header or      *)
(* chunk.                                                                  *)
(***************************************************************************)
LastMessageBad(messages) ==
    /\ Len(messages) > 0
    /\ \/ messages[Len(messages)].role # "user"
       \/ messages[Len(messages)].content = ""

C5_BadLastMessageIs400 ==
    (pc # "idle" /\ LastMessageBad(reqBody.messages)) =>
        /\ pc = "rejected"
        /\ IsJsonError(400, "invalid_request_error")
        /\ NoEventStream
        /\ handler.state = "none"

C5_Witness ==
    /\ pc = "rejected"
    /\ Len(reqBody.messages) = 2
    /\ reqBody.messages[1] = UserQ
    /\ reqBody.messages[2] = [role |-> "user", content |-> ""]
    /\ res.statusCode = 400

(***************************************************************************)
(* C6, as claimed: a request is rejected with 400 whenever messages is     *)
(* empty or any message has a role outside the enum or has empty content.  *)
(***************************************************************************)
C6_AnyMalformedMessageIs400 ==
    (/\ pc # "idle"
     /\ \/ Len(reqBody.messages) = 0
        \/ \E i \in 1..Len(reqBody.messages) :
              \/ reqBody.messages[i].role \notin {"user", "assistant", "system"}
              \/ reqBody.messages[i].content = "") =>
        /\ pc = "rejected"
        /\ res.statusCode = 400

(***************************************************************************)
(* C6, amended: a request is rejected with the 400 JSON error whenever     *)
(* messages is empty, or any message, not only the last one, has a role    *)
(* outside the enum, or the last message has empty content; an empty       *)
(* content in an earlier message does not reject a request that is         *)
(* otherwise valid.                                                        *)
(***************************************************************************)
C6_MalformedMessagesIs400 ==
    pc # "idle" =>
        /\ (\/ Len(reqBody.messages) = 0
            \/ \E i \in 1..Len(reqBody.messages) :
                  reqBody.messages[i].role \notin {"user", "assistant", "system"}
            \/ reqBody.messages[Len(reqBody.messages)].content = "") =>
              (pc = "rejected" /\ IsJsonError(400, "invalid_request_error"))
        /\ (/\ Len(reqBody.messages) > 0
            /\ \A i \in 1..Len(reqBody.messages) :
                  reqBody.messages[i].role \in {"user", "assistant", "system"}
            /\ reqBody.messages[Len(reqBody.messages)] = UserQ
            /\ reqBody.model = Absent
            /\ reqBody.stream = Absent
            /\ reqBody.response_raw = Absent) =>
              (pc # "rejected" /\ res.statusCode # 400)

C6_Witness ==
    /\ pc = "rejected"
    /\ Len(reqBody.messages) = 2
    /\ reqBody.messages[1] = [role |-> "tool", content |-> "q"]
    /\ reqBody.messages[2] = UserQ
    /\ res.statusCode = 400

(***************************************************************************)
(* C10: once the client has disconnected, the bridge does nothing more to  *)
(* the response.  The handlers do not look at the close signal, so the     *)
(* code does not keep this.                                                *)
(***************************************************************************)
C10_NothingWrittenAfterClose == [][clientClosed => res' = res]_vars

(***************************************************************************)
(* C11: when the first provider of the chat catalog or of the embedding    *)
(* catalog exists and holds no model, the request is answered with the     *)
(* 500 JSON error internal_server_error, the agent is not invoked and no   *)
(* event-stream header is written.  When the other catalog is empty the    *)
(* code throws (line 118 or 121) before it answers, so it does not keep    *)
(* this.                                                                   *)
(***************************************************************************)
FirstModelMapEmpty(providers) ==
    Len(providers) > 0 /\ Len(providers[1].value) = 0

C11_EmptyFirstModelMapIs500 ==
    (/\ ProvidersArrived
     /\ \/ FirstModelMapEmpty(chatModelProviders)
        \/ FirstModelMapEmpty(embeddingModelProviders)) =>
        /\ IsJsonError(500, "internal_server_error")
        /\ NoEventStream
        /\ handler.state = "none"

(***************************************************************************)
(* C12: a request answered with a validation error (400) or with the       *)
(* provider error (500, Model or Embedding not found) never has the agent  *)
(* invoked, and its response never holds more than that one JSON error;    *)
(* the 400 is sent before any registry lookup.                             *)
(***************************************************************************)
AnsweredWith(code, message) ==
    \E i \in JsonIndexes :
        /\ res.body[i].payload.code = code
        /\ message \in {res.body[i].payload.message, "any"}

C12_ErrorsNeverReachAgent ==
    /\ (pc = "rejected" \/ AnsweredWith(400, "any")) =>
          /\ pc = "rejected"
          /\ registryCalls = 0
          /\ handler.state = "none"
          /\ emitted = <<>>
          /\ IsJsonError(400, "invalid_request_error")
          /\ NoEventStream
    /\ (pc = "unavailable" \/ AnsweredWith(500, "Model or Embedding not found")) =>
          /\ pc = "unavailable"
          /\ handler.state = "none"
          /\ emitted = <<>>
          /\ IsJsonError(500, "internal_server_error")
          /\ NoEventStream

C12_Witness ==
    /\ pc = "unavailable"
    /\ AnsweredWith(500, "Model or Embedding not found")
    /\ registryCalls = 2
    /\ clientClosed

(***************************************************************************)
(* C13: every chunk of a response, content chunks and the stop chunk,      *)
(* carries the id generated when the request passed validation, and that   *)
(* id never changes afterwards.                                            *)
(***************************************************************************)
ChunkIndexes == {i \in 1..Len(res.body) : IsChunk(res.body[i])}

C13_OneIdPerRequest ==
    /\ [](/\ \A i \in ChunkIndexes : res.body[i].payload.id = id
          /\ \A i, j \in ChunkIndexes : res.body[i].payload.id = res.body[j].payload.id
          /\ pc \in {"awaitProviders", "unavailable", "bridging", "threw"} => id \in Ids)
    /\ [][pc # "idle" => id' = id]_vars

C13_Witness ==
    /\ id = "uuid-2"
    /\ handler.state = "ended"
    /\ Len(ContentChunks) = 2
    /\ Cardinality(ChunkIndexes) = 3

(***************************************************************************)
(* C14: a response that holds a chunk or the [DONE] marker has status 200  *)
(* and the event-stream headers, and started is true; as long as started   *)
(* is false and no error was sent, no status, header or body was written;  *)
(* and once started is true it stays true and the status and headers no    *)
(* longer change.                                                          *)
(***************************************************************************)
C14_StreamCommittedBeforeChunks ==
    /\ [](/\ (ChunkIndexes # {} \/ DoneIndexes # {}) =>
                /\ started
                /\ res.statusCode = 200
                /\ EventStreamHeaders \subseteq res.headers
          /\ (~started /\ ~res.ended) => res = NewResponse)
    /\ [][started =>
            /\ started'
            /\ res'.statusCode = res.statusCode
            /\ res'.headers = res.headers]_vars

C14_Witness ==
    /\ started
    /\ handler.state = "running"
    /\ Len(emitted) = 3
    /\ emitted[1].type = "sources"
    /\ Len(ContentChunks) = 2
    /\ ~json.response_raw

(***************************************************************************)
(* C15: a response that holds a JSON error holds nothing else: its status  *)
(* is 400 or 500, it has no event-stream header, no chunk and no [DONE]    *)
(* marker, it is ended, and no later step changes it.                      *)
(***************************************************************************)
C15_ErrorResponseIsFinal ==
    /\ [](JsonIndexes # {} =>
            /\ Len(res.body) = 1
            /\ res.statusCode \in {400, 500}
            /\ res.statusCode = res.body[1].payload.code
            /\ res.headers \cap EventStreamHeaders = {}
            /\ res.ended)
    /\ [][JsonIndexes # {} => res' = res]_vars

C15_Witness ==
    /\ handler.state = "errored"
    /\ JsonIndexes = {1}
    /\ res.statusCode = 500
    /\ Len(emitted) >= 2

(***************************************************************************)
(* C16: when the agent ends normally and no event was forwarded, the       *)
(* response is a 200 event-stream whose body is the stop chunk, with empty *)
(* delta content, followed by the [DONE] marker, and the body is ended;    *)
(* the stop chunk started the stream.                                      *)
(***************************************************************************)
C16_EmptyRunStillStreams ==
    (handler.state = "ended" /\ Len(ForwardedEvents) = 0) =>
        /\ started
        /\ res.statusCode = 200
        /\ EventStreamHeaders \subseteq res.headers
        /\ Len(res.body) = 2
        /\ IsStop(res.body[1])
        /\ res.body[1].payload.content = ""
        /\ IsDone(res.body[2])
        /\ res.ended

C16_Witness ==
    /\ handler.state = "ended"
    /\ Len(emitted) = 2
    /\ Len(ForwardedEvents) = 0
    /\ Len(res.body) = 2

(***************************************************************************)
(* C17: every chunk of a validated request carries the model 'perplexica': *)
(* a request whose model is present and is not that identifier is rejected *)
(* with 400, and an absent model is defaulted to it.  The schema is        *)
(* nullable, so model: null passes and the chunks carry null: the code     *)
(* does not keep this.                                                     *)
(***************************************************************************)
C17_ChunkModelIsPerplexica ==
    /\ \A i \in ChunkIndexes : res.body[i].payload.model = "perplexica"
    /\ (pc # "idle" /\ reqBody.model \notin {Absent, "perplexica"}) =>
          (pc = "rejected" /\ res.statusCode = 400)
    /\ (pc \notin {"idle", "rejected"} /\ reqBody.model = Absent) =>
          json.model = "perplexica"

(***************************************************************************)
(* C19: when the agent is invoked, the chat model and the embedding model  *)
(* it is handed are the first model of the first provider of the chat      *)
(* catalog and of the embedding catalog, whatever the request's model      *)
(* field and whatever else the catalogs hold.                              *)
(***************************************************************************)
C19_FirstModelOfFirstProvider ==
    handler.state # "none" =>
        /\ Len(chatModelProviders) > 0
        /\ Len(chatModelProviders[1].value) > 0
        /\ llm = chatModelProviders[1].value[1].value
        /\ handler.llm = llm
        /\ Len(embeddingModelProviders) > 0
        /\ Len(embeddingModelProviders[1].value) > 0
        /\ embeddings = embeddingModelProviders[1].value[1].value
        /\ handler.embeddings = embeddings

C19_Witness ==
    /\ handler.state = "running"
    /\ reqBody.model = "perplexica"
    /\ Len(chatModelProviders) = 2
    /\ Len(chatModelProviders[1].value) = 2
    /\ Len(chatModelProviders[2].value) = 1
    /\ Len(embeddingModelProviders) = 2
    /\ Len(embeddingModelProviders[1].value) = 1
    /\ Len(embeddingModelProviders[2].value) = 2

(***************************************************************************)
(* C20: every request reaches a terminal response.  In every state either  *)
(* the response is completed, as a 400 JSON error, a 500 JSON error, a     *)
(* stream closed after stop and [DONE], or a truncated stream, or a step   *)
(* of the exchange is still to come: the request has not arrived, the      *)
(* catalogs have not arrived, or the agent has not emitted its end or      *)
(* error.  After the TypeError of line 118 or 121 nothing is to come and   *)
(* nothing was written: the code does not keep this.                       *)
(***************************************************************************)
TerminalResponse ==
    /\ res.ended
    /\ \/ IsJsonError(400, "invalid_request_error")
       \/ IsJsonError(500, "internal_server_error")
       \/ /\ res.statusCode = 200
          /\ Len(res.body) >= 2
          /\ IsStop(res.body[Len(res.body) - 1])
          /\ IsDone(res.body[Len(res.body)])
       \/ /\ res.statusCode = 200
          /\ Len(res.body) >= 1
          /\ \A i \in 1..Len(res.body) : IsContent(res.body[i])

StepToCome ==
    \/ pc \in {"idle", "awaitProviders"}
    \/ handler.state = "running"

C20_EveryRequestAnswered == TerminalResponse \/ (StepToCome /\ ~res.ended)
====
